---- MODULE Spec2Model ----
(***************************************************************************)
(* A model of the BusTub page cache: the LRU-K replacer, the extendible    *)
(* hash table and the buffer pool manager instance that composes them.     *)
(* Every component is modelled as a value (a record of its member fields)  *)
(* and every member function as an operator from the old value to the new  *)
(* one, so that the buffer pool's handlers can call them in the order the  *)
(* code does.                                                              *)
(***************************************************************************)
EXTENDS Integers, Sequences, FiniteSets, TLC

VARIABLES
    replacer_,      \* LRUKReplacer: [map_, current_timestamp_, curr_size_]
    page_table_,    \* ExtendibleHashTable: [global_depth_, num_buckets_, dir_, buckets]
    pages_,         \* frame id -> [page_id_, pin_count_, is_dirty_]
    free_list_,     \* std::list<frame_id_t>
    next_page_id_,  \* AllocatePage counter
    shadow,         \* history: the map the hash table is expected to implement
    unwritten,      \* history: frames whose page was last unpinned dirty, not written since
    last,           \* history: the last call, its arguments, result and trace
    pc,             \* thread -> the statement it is at ("idle" between calls)
    loc             \* thread -> the arguments and locals of its call

vars == <<replacer_, page_table_, pages_, free_list_, next_page_id_, shadow, unwritten, last,
          pc, loc>>

\* the threads' state, which the calls made one after the other leave alone
threads == <<pc, loc>>

(***************************************************************************)
(* Configuration and bounds                                                *)
(***************************************************************************)
\* constructor parameters
pool_size_ == 2
k_ == 2
bucket_size_ == 2

INVALID_PAGE_ID == -1
BUSTUB_TIMESTAMP_MAX == 2147483647

\* bounds of the exploration
MaxTimestamp == 4      \* the buffer pool records no access once the clock reaches it
MaxReplacerTimestamp == 6  \* the same for the replacer on its own
MaxPageId == 2         \* page ids range over 0..MaxPageId

NoFrame == -1
Frames == 0 .. (pool_size_ - 1)

\* all enumerations (iteration orders) of a finite set
Orders(S) == { s \in [1 .. Cardinality(S) -> S] : \A i, j \in 1 .. Cardinality(S) : s[i] = s[j] => i = j }

Call(op, arg, flag, ret, frame, src, events) ==
    [op |-> op, arg |-> arg, flag |-> flag, ret |-> ret, threw |-> FALSE,
     frame |-> frame, src |-> src, events |-> events]

\* the call ended in an exception
Threw(call) == [call EXCEPT !.ret = FALSE, !.threw = TRUE]

NoCall == Call("init", -1, FALSE, FALSE, NoFrame, "none", <<>>)

(***************************************************************************)
(* LRUKReplacer                                                            *)
(***************************************************************************)
\* CheckFrameId accepts 0 <= frame_id <= replacer_size_ (inclusive)
ValidFrameIds == 0 .. pool_size_

LRUKReplacer_New == [map_ |-> <<>>, current_timestamp_ |-> 0, curr_size_ |-> 0,
                     latch_ |-> FALSE]

\* std::scoped_lock<std::mutex> lock(latch_): taken on construction, released
\* when the scope is left, by a return or by an exception
Lock(r) == [r EXCEPT !.latch_ = TRUE]

Unlock(r) == [r EXCEPT !.latch_ = FALSE]

FrameInfo_New == [evictable_ |-> FALSE, access_timestamps_ |-> <<>>]

FrameInfo_RecordAccess(info, timestamp) ==
    LET pushed == Append(info.access_timestamps_, timestamp)
    IN  [info EXCEPT !.access_timestamps_ =
            IF Len(pushed) > k_ THEN Tail(pushed) ELSE pushed]

KDistance(ts) == ts[k_] - ts[1]

GetAccessInfo(info) ==
    [earliest_access_timestamp_ |-> info.access_timestamps_[1],
     k_distance_ |-> IF Len(info.access_timestamps_) < k_
                     THEN BUSTUB_TIMESTAMP_MAX
                     ELSE KDistance(info.access_timestamps_)]

\* the condition under which the scan of Evict keeps its current target
KeepsTarget(cur, tgt) ==
    \/ cur.k_distance_ < tgt.k_distance_
    \/ /\ cur.k_distance_ = tgt.k_distance_
       /\ cur.earliest_access_timestamp_ >= tgt.earliest_access_timestamp_

\* first loop of Evict: the first evictable frame in iteration order, or -1
RECURSIVE FirstEvictable(_, _, _)
FirstEvictable(map, order, i) ==
    IF i > Len(order) THEN NoFrame
    ELSE IF map[order[i]].evictable_ THEN order[i]
    ELSE FirstEvictable(map, order, i + 1)

\* second loop of Evict
RECURSIVE ScanVictim(_, _, _, _)
ScanVictim(map, order, i, target) ==
    IF i > Len(order) THEN target
    ELSE IF ~map[order[i]].evictable_ THEN ScanVictim(map, order, i + 1, target)
    ELSE IF KeepsTarget(GetAccessInfo(map[order[i]]), GetAccessInfo(map[target]))
         THEN ScanVictim(map, order, i + 1, target)
    ELSE ScanVictim(map, order, i + 1, order[i])

MapErase(map, f) == [g \in (DOMAIN map) \ {f} |-> map[g]]

MapPut(map, f, v) == [g \in (DOMAIN map) \cup {f} |-> IF g = f THEN v ELSE map[g]]

\* an Evict that counts the frame out before it has found one
LRUKReplacer_Evict_CountsFirst(r, order) ==
    LET held  == Lock([r EXCEPT !.curr_size_ = r.curr_size_ - 1])
        first == FirstEvictable(held.map_, order, 1)
    IN  IF first = NoFrame
        THEN [ok |-> FALSE, frame_id |-> NoFrame, r |-> Unlock(held)]
        ELSE LET target == ScanVictim(held.map_, order, 1, first)
             IN  [ok |-> TRUE, frame_id |-> target,
                  r |-> Unlock([held EXCEPT !.map_ = MapErase(held.map_, target)])]

\* order: the iteration order of the unordered_map
LRUKReplacer_Evict(r, order) ==
    LET held  == Lock(r)
        first == FirstEvictable(held.map_, order, 1)
    IN  IF first = NoFrame
        THEN [ok |-> FALSE, frame_id |-> NoFrame, r |-> Unlock(held)]
        ELSE LET target == ScanVictim(held.map_, order, 1, first)
             IN  [ok |-> TRUE, frame_id |-> target,
                  r |-> Unlock([held EXCEPT !.map_ = MapErase(held.map_, target),
                                            !.curr_size_ = held.curr_size_ - 1])]

LRUKReplacer_RecordAccess(r, frame_id) ==
    LET held == Lock(r)
        info == IF frame_id \in DOMAIN held.map_ THEN held.map_[frame_id] ELSE FrameInfo_New
    IN  Unlock([held EXCEPT !.map_ = MapPut(held.map_, frame_id,
                                            FrameInfo_RecordAccess(info, held.current_timestamp_)),
                            !.current_timestamp_ = held.current_timestamp_ + 1])

\* a size update that does not look at the previous flag
SizeAfterSet_Blind(size, was, set_evictable) ==
    IF set_evictable THEN size + 1 ELSE size - 1

SizeAfterSet(size, was, set_evictable) ==
    IF set_evictable
    THEN (IF ~was THEN size + 1 ELSE size)
    ELSE (IF was THEN size - 1 ELSE size)

\* a SetEvictable that marks the frame evictable whatever it is asked
LRUKReplacer_SetEvictable_AlwaysTrue(r, frame_id, set_evictable) ==
    LET held == Lock(r)
    IN  IF frame_id \notin DOMAIN held.map_
        THEN [threw |-> TRUE, r |-> Unlock(held)]
        ELSE [threw |-> FALSE,
              r |-> Unlock([held EXCEPT !.map_[frame_id].evictable_ = TRUE,
                                        !.curr_size_ = SizeAfterSet(held.curr_size_,
                                             held.map_[frame_id].evictable_, TRUE)])]

\* threw: std::invalid_argument("Frame is not found.")
LRUKReplacer_SetEvictable(r, frame_id, set_evictable) ==
    LET held == Lock(r)
    IN  IF frame_id \notin DOMAIN held.map_
        THEN [threw |-> TRUE, r |-> Unlock(held)]
        ELSE [threw |-> FALSE,
              r |-> Unlock([held EXCEPT !.map_[frame_id].evictable_ = set_evictable,
                                        !.curr_size_ = SizeAfterSet(held.curr_size_,
                                             held.map_[frame_id].evictable_, set_evictable)])]

\* a Remove that counts the frame out and forgets map_.erase(frame_id)
LRUKReplacer_Remove_KeepsEntry(r, frame_id) ==
    LET held == Lock(r)
    IN  IF frame_id \notin DOMAIN held.map_ THEN [threw |-> FALSE, r |-> Unlock(held)]
        ELSE IF ~held.map_[frame_id].evictable_ THEN [threw |-> TRUE, r |-> Unlock(held)]
        ELSE [threw |-> FALSE,
              r |-> Unlock([held EXCEPT !.map_[frame_id].evictable_ = FALSE,
                                        !.curr_size_ = held.curr_size_ - 1])]

\* a Remove that erases the frame without looking at its evictable flag
LRUKReplacer_Remove_Unchecked(r, frame_id) ==
    LET held == Lock(r)
    IN  IF frame_id \notin DOMAIN held.map_ THEN [threw |-> FALSE, r |-> Unlock(held)]
        ELSE [threw |-> FALSE,
              r |-> Unlock([held EXCEPT !.map_ = MapErase(held.map_, frame_id),
                                        !.curr_size_ = held.curr_size_ - 1])]

\* threw: std::invalid_argument("Frame is not evictable.")
LRUKReplacer_Remove(r, frame_id) ==
    LET held == Lock(r)
    IN  IF frame_id \notin DOMAIN held.map_ THEN [threw |-> FALSE, r |-> Unlock(held)]
        ELSE IF ~held.map_[frame_id].evictable_ THEN [threw |-> TRUE, r |-> Unlock(held)]
        ELSE [threw |-> FALSE,
              r |-> Unlock([held EXCEPT !.map_ = MapErase(held.map_, frame_id),
                                        !.curr_size_ = held.curr_size_ - 1])]

LRUKReplacer_Size(r) == r.curr_size_

(***************************************************************************)
(* ExtendibleHashTable                                                     *)
(* dir_ is a sequence of bucket identities (slot i of the code is          *)
(* dir_[i + 1]); buckets maps the identity of every live bucket to its     *)
(* depth_ and list_.  A bucket lives as long as a directory slot refers to *)
(* it (std::shared_ptr).                                                   *)
(***************************************************************************)
RECURSIVE Pow2(_)
Pow2(n) == IF n <= 0 THEN 1 ELSE 2 * Pow2(n - 1)

Range(s) == { s[i] : i \in DOMAIN s }

Bucket_New(depth) == [depth_ |-> depth, list_ |-> <<>>]

ExtendibleHashTable_New ==
    [global_depth_ |-> 0, num_buckets_ |-> 1, dir_ |-> <<0>>,
     buckets |-> (0 :> Bucket_New(0))]

\* std::hash of an integer key is the key itself, taken as an unsigned word
Hash(key) == key

\* hash & ((1 << global_depth_) - 1); % is the non-negative remainder
IndexOf(h, key) == Hash(key) % Pow2(h.global_depth_)

Bucket_Find(b, key) ==
    LET hits == { i \in DOMAIN b.list_ : b.list_[i][1] = key }
    IN  IF hits = {} THEN [found |-> FALSE, value |-> -1]
        ELSE [found |-> TRUE,
              value |-> b.list_[CHOOSE i \in hits : \A j \in hits : i <= j][2]]

\* list_.remove(p) erases every element equal to the first pair with the key
Bucket_Remove(b, key) ==
    LET hits == { i \in DOMAIN b.list_ : b.list_[i][1] = key }
    IN  IF hits = {} THEN [ok |-> FALSE, b |-> b]
        ELSE LET p == b.list_[CHOOSE i \in hits : \A j \in hits : i <= j]
                 differs(e) == e # p
             IN  [ok |-> TRUE, b |-> [b EXCEPT !.list_ = SelectSeq(b.list_, differs)]]

\* a bucket that takes one item more than its capacity
Bucket_IsFull_OffByOne(b) == Len(b.list_) > bucket_size_

Bucket_IsFull(b) == Len(b.list_) >= bucket_size_

\* an insert that never looks for the key
Bucket_Insert_NoOverwrite(b, key, value) ==
    IF Bucket_IsFull(b) THEN [ok |-> FALSE, b |-> b]
    ELSE [ok |-> TRUE, b |-> [b EXCEPT !.list_ = Append(b.list_, <<key, value>>)]]

Bucket_Insert(b, key, value) ==
    LET hits == { i \in DOMAIN b.list_ : b.list_[i][1] = key }
    IN  IF hits # {}
        THEN [ok |-> TRUE,
              b |-> [b EXCEPT !.list_[CHOOSE i \in hits : \A j \in hits : i <= j] =
                                  <<key, value>>]]
        ELSE IF Bucket_IsFull(b) THEN [ok |-> FALSE, b |-> b]
        ELSE [ok |-> TRUE, b |-> [b EXCEPT !.list_ = Append(b.list_, <<key, value>>)]]

ExtendibleHashTable_Find(h, key) ==
    Bucket_Find(h.buckets[h.dir_[IndexOf(h, key) + 1]], key)

ExtendibleHashTable_Remove(h, key) ==
    LET bid == h.dir_[IndexOf(h, key) + 1]
        rem == Bucket_Remove(h.buckets[bid], key)
    IN  [ok |-> rem.ok, h |-> [h EXCEPT !.buckets[bid] = rem.b]]

\* the two smallest identities no live bucket carries
FreshBucket(h, n) ==
    CHOOSE id \in 0 .. (Cardinality(DOMAIN h.buckets) + n) :
        Cardinality({ j \in 0 .. id : j \notin DOMAIN h.buckets }) = n

\* a doubling that forgets dir_[original_dir_index + original_dir_size] = bucket1
DoubleDirectory_NoUpperSlot(dir, index, bucket0, bucket1) ==
    LET size == Len(dir)
    IN  [i \in 1 .. (2 * size) |->
            IF i - 1 = index THEN bucket0
            ELSE IF i <= size THEN dir[i] ELSE dir[i - size]]

\* the directory after doubling: dir_.push_back(dir_[i]) for every old slot
DoubleDirectory(dir, index, bucket0, bucket1) ==
    LET size == Len(dir)
    IN  [i \in 1 .. (2 * size) |->
            IF i - 1 = index THEN bucket0
            ELSE IF i - 1 = index + size THEN bucket1
            ELSE IF i <= size THEN dir[i] ELSE dir[i - size]]

\* the slots visited by the loop over i = index & (mask - 1), i += mask
SplitVisits(i, index, mask) == i % mask = index % mask

\* (i & mask) == 0 selects bucket0
SplitChoice(i, mask, bucket0, bucket1) ==
    IF (i \div mask) % 2 = 0 THEN bucket0 ELSE bucket1

ReassignDirectory(dir, index, depth, bucket0, bucket1) ==
    LET mask == Pow2(depth)
    IN  [i \in 1 .. Len(dir) |->
            IF SplitVisits(i - 1, index, mask)
            THEN SplitChoice(i - 1, mask, bucket0, bucket1)
            ELSE dir[i]]

NeedsGrowth(local_depth, global_depth) == local_depth + 1 > global_depth

\* the split of InsertInternal, up to the call of RedistributeBucket
SplitBucket(h, index) ==
    LET original == h.dir_[index + 1]
        depth  == h.buckets[original].depth_
        b0     == FreshBucket(h, 1)
        b1     == FreshBucket(h, 2)
        grow   == NeedsGrowth(depth, h.global_depth_)
        dir    == IF grow THEN DoubleDirectory(h.dir_, index, b0, b1)
                  ELSE ReassignDirectory(h.dir_, index, depth, b0, b1)
        all    == [id \in (DOMAIN h.buckets) \cup {b0, b1} |->
                      IF id \in DOMAIN h.buckets THEN h.buckets[id]
                      ELSE Bucket_New(depth + 1)]
    IN  [global_depth_ |-> IF grow THEN h.global_depth_ + 1 ELSE h.global_depth_,
         num_buckets_  |-> h.num_buckets_,
         dir_          |-> dir,
         \* the original bucket dies with the last reference to it
         buckets       |-> [id \in Range(dir) |-> all[id]]]

RECURSIVE ExtendibleHashTable_InsertInternal(_, _, _)
RECURSIVE RedistributeBucket(_, _, _)

RedistributeBucket(h, items, i) ==
    IF i > Len(items) THEN h
    ELSE RedistributeBucket(
             ExtendibleHashTable_InsertInternal(h, items[i][1], items[i][2]), items, i + 1)

ExtendibleHashTable_InsertInternal(h, key, value) ==
    LET index == IndexOf(h, key)
        bid   == h.dir_[index + 1]
        ins   == Bucket_Insert(h.buckets[bid], key, value)
    IN  IF ins.ok THEN [h EXCEPT !.buckets[bid] = ins.b]
        ELSE ExtendibleHashTable_InsertInternal(
                 RedistributeBucket(SplitBucket(h, index), h.buckets[bid].list_, 1),
                 key, value)

ExtendibleHashTable_Insert(h, key, value) == ExtendibleHashTable_InsertInternal(h, key, value)

\* the splits InsertInternal makes for (key, value), in order: the local depth
\* of each bucket it splits
RECURSIVE Splits(_, _, _)
Splits(h, key, value) ==
    LET index == IndexOf(h, key)
        bid   == h.dir_[index + 1]
    IN  IF Bucket_Insert(h.buckets[bid], key, value).ok THEN <<>>
        ELSE << <<"Split", h.buckets[bid].depth_>> >> \o
             Splits(RedistributeBucket(SplitBucket(h, index), h.buckets[bid].list_, 1),
                    key, value)

\* the tables InsertInternal goes through for (key, value): after each split,
\* after each item of the split bucket has been inserted again, and at the end
RECURSIVE InsertStages(_, _, _)
InsertStages(h, key, value) ==
    LET index == IndexOf(h, key)
        bid   == h.dir_[index + 1]
        ins   == Bucket_Insert(h.buckets[bid], key, value)
        items == h.buckets[bid].list_
        split == SplitBucket(h, index)
    IN  IF ins.ok THEN { [h EXCEPT !.buckets[bid] = ins.b] }
        ELSE { RedistributeBucket(split, SubSeq(items, 1, n), 1) : n \in 0 .. Len(items) }
             \cup InsertStages(RedistributeBucket(split, items, 1), key, value)

ExtendibleHashTable_GetNumBuckets(h) == h.num_buckets_

(***************************************************************************)
(* Initial state: the state after the constructors                         *)
(***************************************************************************)
MaxKey == 5            \* keys of the stand-alone hash table range over 0..MaxKey

Keys == 0 .. MaxKey
Values == {0, 1}        \* the values stored under them
NoValue == NoFrame

Threads == {1, 2}

\* calls: history, the number of calls the thread has made
NoLocals == [op |-> "none", page_id |-> INVALID_PAGE_ID, is_dirty |-> FALSE,
             target_frame_id |-> NoFrame, calls |-> 0]

Page_New == [page_id_ |-> INVALID_PAGE_ID, pin_count_ |-> 0, is_dirty_ |-> FALSE]

Init ==
    /\ replacer_ = LRUKReplacer_New
    /\ page_table_ = ExtendibleHashTable_New
    /\ pages_ = [f \in Frames |-> Page_New]
    /\ free_list_ = [i \in 1 .. pool_size_ |-> i - 1]
    /\ next_page_id_ = 0
    /\ shadow = [k \in Keys |-> NoValue]
    /\ unwritten = {}
    /\ last = NoCall
    /\ pc = [t \in Threads |-> "idle"]
    /\ loc = [t \in Threads |-> NoLocals]

(***************************************************************************)
(* The replacer on its own: any sequence of its public calls               *)
(***************************************************************************)
ReplacerRecordAccess(frame_id) ==
    /\ replacer_.current_timestamp_ < MaxReplacerTimestamp
    /\ replacer_' = LRUKReplacer_RecordAccess(replacer_, frame_id)
    /\ last' = Call("RecordAccess", frame_id, FALSE, TRUE, frame_id, "none", <<>>)
    /\ UNCHANGED <<page_table_, pages_, free_list_, next_page_id_, shadow, unwritten, threads>>

ReplacerSetEvictable(frame_id, set_evictable) ==
    LET res == LRUKReplacer_SetEvictable(replacer_, frame_id, set_evictable)
    IN  /\ replacer_' = res.r
        /\ last' = IF res.threw
                   THEN Threw(Call("SetEvictable", frame_id, set_evictable, FALSE,
                                   frame_id, "none", <<>>))
                   ELSE Call("SetEvictable", frame_id, set_evictable, TRUE, frame_id,
                             "none", <<>>)
        /\ UNCHANGED <<page_table_, pages_, free_list_, next_page_id_, shadow, unwritten, threads>>

ReplacerRemove(frame_id) ==
    LET res == LRUKReplacer_Remove(replacer_, frame_id)
    IN  /\ replacer_' = res.r
        /\ last' = IF res.threw
                   THEN Threw(Call("Remove", frame_id, FALSE, FALSE, frame_id, "none", <<>>))
                   ELSE Call("Remove", frame_id, FALSE, TRUE, frame_id, "none", <<>>)
        /\ UNCHANGED <<page_table_, pages_, free_list_, next_page_id_, shadow, unwritten, threads>>

ReplacerEvict ==
    \E order \in Orders(DOMAIN replacer_.map_) :
        LET res == LRUKReplacer_Evict(replacer_, order)
        IN  /\ replacer_' = res.r
            /\ last' = Call("Evict", -1, FALSE, res.ok, res.frame_id, "none", <<>>)
            /\ UNCHANGED <<page_table_, pages_, free_list_, next_page_id_, shadow, unwritten, threads>>

ReplacerSize ==
    /\ last' = Call("Size", -1, FALSE, LRUKReplacer_Size(replacer_), NoFrame, "none", <<>>)
    /\ UNCHANGED <<replacer_, page_table_, pages_, free_list_, next_page_id_, shadow, unwritten, threads>>

NextLKR ==
    \/ \E f \in ValidFrameIds : ReplacerRecordAccess(f)
    \/ \E f \in ValidFrameIds, b \in BOOLEAN : ReplacerSetEvictable(f, b)
    \/ \E f \in ValidFrameIds : ReplacerRemove(f)
    \/ ReplacerEvict
    \/ ReplacerSize

SpecLKR == Init /\ [][NextLKR]_vars

(***************************************************************************)
(* The hash table on its own: any sequence of its public calls             *)
(***************************************************************************)
TableInsert(key, value) ==
    /\ page_table_' = ExtendibleHashTable_Insert(page_table_, key, value)
    /\ shadow' = [shadow EXCEPT ![key] = value]
    /\ last' = Call("Insert", key, ExtendibleHashTable_Find(page_table_, key).found, value,
                    NoFrame, "none", Splits(page_table_, key, value))
    /\ UNCHANGED <<replacer_, pages_, free_list_, next_page_id_, unwritten, threads>>

TableRemove(key) ==
    LET res == ExtendibleHashTable_Remove(page_table_, key)
    IN  /\ page_table_' = res.h
        /\ shadow' = IF res.ok THEN [shadow EXCEPT ![key] = NoValue] ELSE shadow
        /\ last' = Call("Remove", key, FALSE, res.ok, NoFrame, "none", <<>>)
        /\ UNCHANGED <<replacer_, pages_, free_list_, next_page_id_, unwritten, threads>>

TableFind(key) ==
    LET res == ExtendibleHashTable_Find(page_table_, key)
    IN  /\ last' = Call("Find", key, res.found, res.value, NoFrame, "none", <<>>)
        /\ UNCHANGED <<replacer_, page_table_, pages_, free_list_, next_page_id_, shadow, unwritten, threads>>

NextEHT ==
    \/ \E k \in Keys, v \in Values : TableInsert(k, v)
    \/ \E k \in Keys : TableRemove(k)
    \/ \E k \in Keys : TableFind(k)

SpecEHT == Init /\ [][NextEHT]_vars

(***************************************************************************)
(* BufferPoolManagerInstance: one action per public call, each the whole   *)
(* handler.  events is the trace of the calls the handler makes on the     *)
(* disk manager and the page table and of its writes of page_id_, in the   *)
(* order the code makes them.                                              *)
(***************************************************************************)
PageIds == 0 .. MaxPageId

\* the iteration orders that matter to a call: none while free_list_ has a frame
EvictOrders == IF free_list_ # <<>> THEN {<<>>} ELSE Orders(DOMAIN replacer_.map_)

\* a frame taken from free_list_ without pop_front()
ObtainFrame_NoPop(order) ==
    IF free_list_ # <<>>
    THEN [ok |-> TRUE, frame |-> Head(free_list_), free |-> free_list_,
          r |-> replacer_, src |-> "free"]
    ELSE LET ev == LRUKReplacer_Evict(replacer_, order)
         IN  [ok |-> ev.ok, frame |-> ev.frame_id, free |-> free_list_,
              r |-> ev.r, src |-> "evict"]

\* free_list_.front()/pop_front(), else replacer_->Evict(&target_frame_id)
ObtainFrame(order) ==
    IF free_list_ # <<>>
    THEN [ok |-> TRUE, frame |-> Head(free_list_), free |-> Tail(free_list_),
          r |-> replacer_, src |-> "free"]
    ELSE LET ev == LRUKReplacer_Evict(replacer_, order)
         IN  [ok |-> ev.ok, frame |-> ev.frame_id, free |-> free_list_,
              r |-> ev.r, src |-> "evict"]

\* a reassignment that never writes the old page back
WritesBack_Never(page) == FALSE

\* if (pages_[target_frame_id].IsDirty()) disk_manager_->WritePage(...)
WritesBack(page) == page.is_dirty_

WriteBack(page, frame) ==
    IF WritesBack(page) THEN << <<"WritePage", page.page_id_, frame>> >> ELSE <<>>

\* Page::ResetMemory zeroes the frame's bytes, which the model does not hold,
\* and none of page_id_, pin_count_ and is_dirty_ (DeletePgImp writes the three
\* itself after calling it)
ResetMemory(page) == page

\* the metadata of a frame after ResetMemory, page_id_ = ..., pin_count_ = 1
Reassigned(page, page_id) ==
    [ResetMemory(page) EXCEPT !.page_id_ = page_id, !.pin_count_ = 1]

\* the frames whose contents a trace writes to disk
Written(events) == { events[i][3] : i \in { j \in DOMAIN events : events[j][1] = "WritePage" } }

NewPgImp ==
    \E order \in EvictOrders :
        LET ob == ObtainFrame(order)
        IN  IF ~ob.ok
            THEN /\ replacer_' = ob.r
                 /\ free_list_' = ob.free
                 /\ last' = Call("NewPage", -1, FALSE, INVALID_PAGE_ID, NoFrame, "none", <<>>)
                 /\ UNCHANGED <<page_table_, pages_, next_page_id_, shadow, unwritten, threads>>
            ELSE LET t   == ob.frame
                     old == pages_[t]
                     pid == next_page_id_
                     r1  == LRUKReplacer_RecordAccess(ob.r, t)
                     r2  == LRUKReplacer_SetEvictable(r1, t, FALSE)
                     pt1 == ExtendibleHashTable_Remove(page_table_, old.page_id_).h
                     ev  == WriteBack(old, t) \o << <<"Remove", old.page_id_>>,
                                                <<"SetPageId", pid>>,
                                                <<"Insert", pid>> >>
                 IN  /\ next_page_id_ <= MaxPageId
                     /\ ob.r.current_timestamp_ < MaxTimestamp
                     /\ free_list_' = ob.free
                     /\ pages_' = [pages_ EXCEPT ![t] = Reassigned(old, pid)]
                     /\ next_page_id_' = next_page_id_ + 1
                     /\ replacer_' = r2.r
                     /\ page_table_' = ExtendibleHashTable_Insert(pt1, pid, t)
                     /\ unwritten' = unwritten \ {t}
                     /\ last' = Call("NewPage", -1, FALSE, pid, t, ob.src, ev)
                     /\ UNCHANGED <<shadow, threads>>

FetchHit(page_id, t) ==
    /\ replacer_.current_timestamp_ < MaxTimestamp
    /\ replacer_' = LRUKReplacer_RecordAccess(replacer_, t)
    /\ last' = Call("FetchPage", page_id, FALSE, TRUE, t, "hit", <<>>)
    /\ UNCHANGED <<page_table_, pages_, free_list_, next_page_id_, shadow, unwritten, threads>>

FetchMiss(page_id) ==
    \E order \in EvictOrders :
        LET ob == ObtainFrame(order)
        IN  IF ~ob.ok
            THEN /\ replacer_' = ob.r
                 /\ free_list_' = ob.free
                 /\ last' = Call("FetchPage", page_id, FALSE, FALSE, NoFrame, "none", <<>>)
                 /\ UNCHANGED <<page_table_, pages_, next_page_id_, shadow, unwritten, threads>>
            ELSE LET t   == ob.frame
                     old == pages_[t]
                     r1  == LRUKReplacer_RecordAccess(ob.r, t)
                     r2  == LRUKReplacer_SetEvictable(r1, t, FALSE)
                     pt1 == ExtendibleHashTable_Remove(page_table_, old.page_id_).h
                     ev  == WriteBack(old, t) \o << <<"Remove", old.page_id_>>,
                                                <<"SetPageId", page_id>>,
                                                <<"Insert", page_id>>,
                                                <<"ReadPage", page_id>> >>
                 IN  /\ ob.r.current_timestamp_ < MaxTimestamp
                     /\ free_list_' = ob.free
                     /\ pages_' = [pages_ EXCEPT ![t] = Reassigned(old, page_id)]
                     /\ replacer_' = r2.r
                     /\ page_table_' = ExtendibleHashTable_Insert(pt1, page_id, t)
                     /\ unwritten' = unwritten \ {t}
                     /\ last' = Call("FetchPage", page_id, FALSE, TRUE, t, ob.src, ev)
                     /\ UNCHANGED <<next_page_id_, shadow, threads>>

FetchPgImp(page_id) ==
    LET look == ExtendibleHashTable_Find(page_table_, page_id)
    IN  IF look.found THEN FetchHit(page_id, look.value) ELSE FetchMiss(page_id)

\* an unpin that never hands the frame to the replacer
BecomesEvictable_Never(pin_count) == FALSE

\* pin_count_ -= 1; if (GetPinCount() == 0) replacer_->SetEvictable(frame, true)
BecomesEvictable(pin_count) == pin_count = 0

\* pages_[target_frame_id].is_dirty_ = is_dirty
DirtyAfterUnpin(was_dirty, is_dirty) == is_dirty

UnpinPgImp(page_id, is_dirty) ==
    LET look == ExtendibleHashTable_Find(page_table_, page_id)
        t    == look.value
    IN  IF ~look.found \/ pages_[t].pin_count_ = 0
        THEN /\ last' = Call("UnpinPage", page_id, is_dirty, FALSE,
                             IF look.found THEN t ELSE NoFrame, "none", <<>>)
             /\ UNCHANGED <<replacer_, page_table_, pages_, free_list_, next_page_id_,
                            shadow, unwritten, threads>>
        ELSE LET pin == pages_[t].pin_count_ - 1
                 set == IF BecomesEvictable(pin)
                        THEN LRUKReplacer_SetEvictable(replacer_, t, TRUE)
                        ELSE [threw |-> FALSE, r |-> replacer_]
             IN  /\ replacer_' = set.r
                 /\ pages_' = IF set.threw
                              THEN [pages_ EXCEPT ![t].pin_count_ = pin]
                              ELSE [pages_ EXCEPT ![t].pin_count_ = pin,
                                                  ![t].is_dirty_ =
                                                      DirtyAfterUnpin(pages_[t].is_dirty_, is_dirty)]
                 /\ unwritten' = IF set.threw THEN unwritten
                                 ELSE IF is_dirty THEN unwritten \cup {t}
                                 ELSE unwritten \ {t}
                 /\ last' = IF set.threw
                            THEN Threw(Call("UnpinPage", page_id, is_dirty, FALSE, t, "none", <<>>))
                            ELSE Call("UnpinPage", page_id, is_dirty, TRUE, t, "none", <<>>)
                 /\ UNCHANGED <<page_table_, free_list_, next_page_id_, shadow, threads>>

\* FlushPgImp on the state st = [pages, r, events, ok]
FlushOne(st, page_id) ==
    LET look == ExtendibleHashTable_Find(page_table_, page_id)
        t    == look.value
    IN  IF ~look.found THEN [st EXCEPT !.ok = FALSE]
        ELSE [pages  |-> [st.pages EXCEPT ![t].is_dirty_ = FALSE],
              r      |-> LRUKReplacer_RecordAccess(st.r, t),
              events |-> Append(st.events, <<"WritePage", page_id, t>>),
              ok     |-> TRUE]

FlushStart == [pages |-> pages_, r |-> replacer_, events |-> <<>>, ok |-> TRUE]

FlushPgImp(page_id) ==
    LET st == FlushOne(FlushStart, page_id)
    IN  /\ st.r.current_timestamp_ <= MaxTimestamp
        /\ pages_' = st.pages
        /\ replacer_' = st.r
        /\ unwritten' = unwritten \ Written(st.events)
        /\ last' = Call("FlushPage", page_id, FALSE, st.ok,
                        IF st.ok THEN ExtendibleHashTable_Find(page_table_, page_id).value
                        ELSE NoFrame, "none", st.events)
        /\ UNCHANGED <<page_table_, free_list_, next_page_id_, shadow, threads>>

\* for (i = 0; i < pool_size_; ++i) FlushPgImp(pages_[i].GetPageId())
RECURSIVE FlushFrames(_, _)
FlushFrames(st, i) ==
    IF i >= pool_size_ THEN st
    ELSE FlushFrames(FlushOne(st, st.pages[i].page_id_), i + 1)

FlushAllPgsImp ==
    LET st == FlushFrames(FlushStart, 0)
    IN  /\ st.r.current_timestamp_ <= MaxTimestamp
        /\ pages_' = st.pages
        /\ replacer_' = st.r
        /\ unwritten' = unwritten \ Written(st.events)
        /\ last' = Call("FlushAllPages", -1, FALSE, TRUE, NoFrame, "none", st.events)
        /\ UNCHANGED <<page_table_, free_list_, next_page_id_, shadow, threads>>

DeletePgImp(page_id) ==
    LET look == ExtendibleHashTable_Find(page_table_, page_id)
        t    == look.value
    IN  IF ~look.found
        THEN /\ last' = Call("DeletePage", page_id, FALSE, TRUE, NoFrame, "none", <<>>)
             /\ UNCHANGED <<replacer_, page_table_, pages_, free_list_, next_page_id_,
                            shadow, unwritten, threads>>
        ELSE IF pages_[t].pin_count_ > 0
        THEN /\ last' = Call("DeletePage", page_id, FALSE, FALSE, t, "none", <<>>)
             /\ UNCHANGED <<replacer_, page_table_, pages_, free_list_, next_page_id_,
                            shadow, unwritten, threads>>
        ELSE LET rem == LRUKReplacer_Remove(replacer_, t)
             IN  /\ page_table_' = ExtendibleHashTable_Remove(page_table_, page_id).h
                 /\ replacer_' = rem.r
                 /\ pages_' = IF rem.threw THEN pages_ ELSE [pages_ EXCEPT ![t] = Page_New]
                 /\ free_list_' = IF rem.threw THEN free_list_ ELSE Append(free_list_, t)
                 /\ unwritten' = IF rem.threw THEN unwritten ELSE unwritten \ {t}
                 /\ last' = IF rem.threw
                            THEN Threw(Call("DeletePage", page_id, FALSE, FALSE, t, "none",
                                            << <<"Remove", page_id>> >>))
                            ELSE Call("DeletePage", page_id, FALSE, TRUE, t, "none",
                                      << <<"Remove", page_id>>,
                                         <<"SetPageId", INVALID_PAGE_ID>>,
                                         <<"DeallocatePage", page_id>> >>)
                 /\ UNCHANGED <<next_page_id_, shadow, threads>>

Next ==
    \/ NewPgImp
    \/ \E p \in PageIds : FetchPgImp(p)
    \/ \E p \in PageIds, d \in BOOLEAN : UnpinPgImp(p, d)
    \/ \E p \in PageIds : FlushPgImp(p)
    \/ FlushAllPgsImp
    \/ \E p \in PageIds : DeletePgImp(p)

Spec == Init /\ [][Next]_vars

(***************************************************************************)
(* Properties of the buffer pool (Spec)                                    *)
(***************************************************************************)
IsEvictable(r, f) == f \in DOMAIN r.map_ /\ r.map_[f].evictable_

Obtains(call) == call.op \in {"NewPage", "FetchPage"} /\ call.src \in {"free", "evict"}

\* no call of the buffer pool ends in an exception of the replacer
NoThrow == ~last.threw

\* C1: a fetch_page that hits the page table increases the frame's pin_count by
\* exactly one and leaves the frame non-evictable in the replacer.
C1_FetchHitPins ==
    [][ (last'.op = "FetchPage" /\ last'.src = "hit") =>
            /\ pages_'[last'.frame].pin_count_ = pages_[last'.frame].pin_count_ + 1
            /\ ~IsEvictable(replacer_', last'.frame) ]_vars

\* C2: a successful unpin_page(p, is_dirty) sets the dirty flag to
\* (old dirty OR is_dirty), and only flush_page, flush_all, an eviction or
\* delete_page clear a dirty flag.
C2_UnpinOrsDirty ==
    [][ /\ (last'.op = "UnpinPage" /\ last'.ret) =>
              pages_'[last'.frame].is_dirty_ =
                  (pages_[last'.frame].is_dirty_ \/ last'.flag)
        /\ \A f \in Frames :
              (pages_[f].is_dirty_ /\ ~pages_'[f].is_dirty_) =>
                  \/ last'.op \in {"FlushPage", "FlushAllPages", "DeletePage"}
                  \/ (Obtains(last') /\ last'.frame = f) ]_vars

\* C4: no frame with pin_count > 0 is evictable in the replacer, and no frame
\* with pin_count > 0 is returned by evict() and reassigned to another page.
C4_PinSafety ==
    /\ [](\A f \in Frames : pages_[f].pin_count_ > 0 => ~IsEvictable(replacer_, f))
    /\ [][ (Obtains(last') /\ last'.src = "evict") =>
               pages_[last'.frame].pin_count_ = 0 ]_vars

\* a frame was evicted and reassigned while another frame stayed pinned
C4_Witness ==
    /\ Obtains(last) /\ last.src = "evict"
    /\ \E f \in Frames : f # last.frame /\ pages_[f].pin_count_ > 0
                         /\ f \in DOMAIN replacer_.map_

\* C5: when new_page or fetch_page reassigns a frame whose occupant is dirty,
\* or was last unpinned dirty and not written since, exactly one
\* write_page(old_page_id) is issued, before the frame's page_id changes and
\* before the old page_id is removed from the page table.
C5_WriteThrough ==
    [][ Obtains(last') =>
            LET t      == last'.frame
                old    == pages_[t]
                ev     == last'.events
                writes == { i \in DOMAIN ev : ev[i][1] = "WritePage" }
            IN  (old.is_dirty_ \/ t \in unwritten) =>
                    \E w \in DOMAIN ev :
                        /\ writes = {w}
                        /\ ev[w] = <<"WritePage", old.page_id_, t>>
                        /\ \A i \in DOMAIN ev :
                               ev[i][1] \in {"Remove", "SetPageId"} => w < i ]_vars

\* a dirty page was evicted and written back
C5_Witness ==
    /\ Obtains(last) /\ last.src = "evict"
    /\ last.events # <<>> /\ last.events[1][1] = "WritePage"

C11_NewPageFailsIffAllPinned ==
    [][ last'.op = "NewPage" =>
            /\ (last'.ret = INVALID_PAGE_ID) <=>
                   (free_list_ = <<>> /\ \A f \in Frames : pages_[f].pin_count_ > 0)
            /\ free_list_ # <<>> =>
                   /\ last'.src = "free" /\ last'.frame = Head(free_list_)
                   /\ DOMAIN replacer_.map_ \subseteq DOMAIN replacer_'.map_ ]_vars

\* new_page has failed on a pool whose frames are all resident and pinned
C11_Witness ==
    /\ last.op = "NewPage" /\ last.ret = INVALID_PAGE_ID
    /\ free_list_ = <<>>
    /\ \A f \in Frames : pages_[f].page_id_ # INVALID_PAGE_ID /\ pages_[f].pin_count_ > 0

\* C12: after delete_page(p) has returned true on a page that new_page handed
\* out and that was unpinned, p is no longer indexed in the page table and a
\* subsequent fetch_page(p) returns no page.
C12_DeletedPageIsGone ==
    /\ [](last.op = "DeletePage" /\ last.ret =>
              ~ExtendibleHashTable_Find(page_table_, last.arg).found)
    /\ [][ (/\ last.op = "DeletePage" /\ last.ret /\ last.frame # NoFrame
            /\ last.arg < next_page_id_
            /\ last'.op = "FetchPage" /\ last'.arg = last.arg) => ~last'.ret ]_vars

\* the number of times a trace holds the event e
Count(events, e) == Cardinality({ i \in DOMAIN events : events[i] = e })

Resident == { f \in Frames : pages_[f].page_id_ # INVALID_PAGE_ID }

\* C13: flush_page(p) on a resident page issues exactly one write_page(p),
\* clears the dirty flag and returns true, dirty or not, pinned or not; on a
\* non-resident page it issues no write and returns false; flush_all issues
\* exactly one write_page per frame that holds a page, none for a free frame,
\* and leaves no frame dirty.
C13_FlushWrites ==
    [][ /\ last'.op = "FlushPage" =>
              LET look == ExtendibleHashTable_Find(page_table_, last'.arg)
              IN  IF look.found
                  THEN /\ last'.ret
                       /\ last'.events = << <<"WritePage", last'.arg, look.value>> >>
                       /\ ~pages_'[look.value].is_dirty_
                  ELSE /\ ~last'.ret
                       /\ last'.events = <<>>
        /\ last'.op = "FlushAllPages" =>
              /\ Len(last'.events) = Cardinality(Resident)
              /\ \A f \in Resident :
                     Count(last'.events, <<"WritePage", pages_[f].page_id_, f>>) = 1
              /\ \A f \in Frames : ~pages_'[f].is_dirty_ ]_vars

\* C16: right after a successful new_page, or a fetch_page that missed the
\* page table, the returned frame has pin_count 1 and is not dirty, whatever
\* its previous occupant was, is tracked and non-evictable in the replacer,
\* and is indexed under its new page id.
C16_FreshFrame ==
    [][ Obtains(last') =>
            LET t    == last'.frame
                pid  == IF last'.op = "NewPage" THEN last'.ret ELSE last'.arg
                look == ExtendibleHashTable_Find(page_table_', pid)
            IN  /\ pages_'[t].page_id_ = pid
                /\ pages_'[t].pin_count_ = 1
                /\ ~pages_'[t].is_dirty_
                /\ t \in DOMAIN replacer_'.map_ /\ ~IsEvictable(replacer_', t)
                /\ look.found /\ look.value = t ]_vars

\* the positions of free_list_ that hold f
FreeSlots(f) == { i \in DOMAIN free_list_ : free_list_[i] = f }

\* C17: every frame is in exactly one of two states: it is once in free_list
\* and holds INVALID, or it holds a page id that the page table maps to this
\* frame; the page table has no entry for INVALID or for a page no frame holds.
C17_FrameStates ==
    /\ \A f \in Frames :
           LET look == ExtendibleHashTable_Find(page_table_, pages_[f].page_id_)
           IN  IF pages_[f].page_id_ = INVALID_PAGE_ID
               THEN Cardinality(FreeSlots(f)) = 1
               ELSE FreeSlots(f) = {} /\ look.found /\ look.value = f
    /\ \A p \in PageIds \cup {INVALID_PAGE_ID} :
           LET look == ExtendibleHashTable_Find(page_table_, p)
           IN  look.found => p # INVALID_PAGE_ID /\ pages_[look.value].page_id_ = p

\* the call reported a soft failure: no page, or false
SoftFailure(call) ==
    /\ ~call.threw
    /\ \/ call.op = "NewPage" /\ call.ret = INVALID_PAGE_ID
       \/ call.op \in {"FetchPage", "UnpinPage", "DeletePage"} /\ ~call.ret

\* C18: a call that reports a soft failure (new_page or fetch_page returning
\* no page, unpin_page or delete_page returning false) changes no frame
\* metadata, free list, page table entry or replacer entry, issues no disk
\* write and does not advance next_page_id; successful new_page calls return
\* consecutive page ids.
C18_SoftFailuresChangeNothing ==
    [][ /\ SoftFailure(last') =>
              /\ UNCHANGED <<replacer_, page_table_, pages_, free_list_, next_page_id_>>
              /\ last'.events = <<>>
        /\ (last'.op = "NewPage" /\ ~SoftFailure(last')) =>
              /\ last'.ret = next_page_id_
              /\ next_page_id_' = next_page_id_ + 1 ]_vars

\* fetch_page has returned no page: nothing is free and nothing is evictable
C18_Witness ==
    /\ last.op = "FetchPage" /\ SoftFailure(last)
    /\ free_list_ = <<>> /\ LRUKReplacer_Size(replacer_) = 0
    /\ next_page_id_ > 0

\* C20: flush_page and flush_all change only the disk contents and the dirty
\* flag of the flushed frames: pin counts, page ids, the free list, the page
\* table and the replacer (access history, clock, evictable flags) are
\* unchanged.
C20_FlushFrameEffect ==
    [][ last'.op \in {"FlushPage", "FlushAllPages"} =>
            /\ UNCHANGED <<replacer_, page_table_, free_list_, next_page_id_>>
            /\ \A f \in Frames :
                   /\ pages_'[f].page_id_ = pages_[f].page_id_
                   /\ pages_'[f].pin_count_ = pages_[f].pin_count_
                   /\ f \notin Written(last'.events) =>
                          pages_'[f].is_dirty_ = pages_[f].is_dirty_ ]_vars

Infinity == BUSTUB_TIMESTAMP_MAX

BackwardKDistance(info, now) ==
    LET ts == info.access_timestamps_
    IN  IF Len(ts) < k_ THEN Infinity ELSE now - ts[Len(ts) - k_ + 1]

\* f is to be evicted before g
EvictedBefore(r, f, g) ==
    LET df == BackwardKDistance(r.map_[f], r.current_timestamp_)
        dg == BackwardKDistance(r.map_[g], r.current_timestamp_)
    IN  \/ df > dg
        \/ df = dg /\ r.map_[f].access_timestamps_[1] < r.map_[g].access_timestamps_[1]

LRUKVictim(r) ==
    LET cands == { f \in DOMAIN r.map_ : r.map_[f].evictable_ }
    IN  CHOOSE f \in cands : \A g \in cands \ {f} : EvictedBefore(r, f, g)

\* C3: evict() returns the evictable frame with the maximum backward
\* k-distance, ties broken by the smallest earliest recorded timestamp.
C3_EvictsMaxBackwardK ==
    [][ (last'.op = "Evict" /\ last'.ret) => last'.frame = LRUKVictim(replacer_) ]_vars

\* C9: size() equals the number of tracked frames whose evictable flag is
\* true, and a set_evictable call that does not change the flag does not
\* change size().
C9_SizeCountsEvictable ==
    /\ [](LRUKReplacer_Size(replacer_) =
             Cardinality({ f \in DOMAIN replacer_.map_ : replacer_.map_[f].evictable_ }))
    /\ [][ (/\ last'.op = "SetEvictable"
            /\ last'.frame \in DOMAIN replacer_.map_
            /\ replacer_.map_[last'.frame].evictable_ = last'.flag) =>
               LRUKReplacer_Size(replacer_') = LRUKReplacer_Size(replacer_) ]_vars

\* set_evictable(f, true) has returned on a replacer that tracks three frames,
\* two of them evictable and one not: Size() is 2
C9_Witness ==
    /\ last.op = "SetEvictable" /\ last.ret /\ last.flag
    /\ LRUKReplacer_Size(replacer_) = 2
    /\ Cardinality(DOMAIN replacer_.map_) = 3

Slots(h) == 0 .. (Len(h.dir_) - 1)

SlotsOf(h, b) == { i \in Slots(h) : h.dir_[i + 1] = b }

\* C6: the directory has length 2^global_depth, every bucket has local depth
\* l <= global_depth, and the slots referencing it are exactly the 2^(g-l)
\* indices that agree with its discriminant on the low l bits.
C6_DirectoryConsistent ==
    LET h == page_table_
        g == h.global_depth_
    IN  /\ Len(h.dir_) = Pow2(g)
        /\ \A b \in Range(h.dir_) :
              LET l == h.buckets[b].depth_
              IN  /\ l <= g
                  /\ Cardinality(SlotsOf(h, b)) = Pow2(g - l)
                  /\ \E d \in 0 .. (Pow2(l) - 1) :
                         SlotsOf(h, b) = { i \in Slots(h) : i % Pow2(l) = d }

\* four buckets of depth 2: one split doubled nothing and reassigned two slots
C6_Witness ==
    /\ page_table_.global_depth_ = 2
    /\ Cardinality(Range(page_table_.dir_)) = 4

\* the entries stored under key in the whole table
Entries(h, key) ==
    { <<b, i>> \in (DOMAIN h.buckets) \X (1 .. bucket_size_) :
          i <= Len(h.buckets[b].list_) /\ h.buckets[b].list_[i][1] = key }

\* C7: the table behaves as a map: find(k) returns the value of the last
\* insert(k, v) whatever was done to other keys since, an insert on an
\* existing key leaves one entry, and after remove(k) find(k) returns none.
C7_BehavesAsMap ==
    \A k \in Keys :
        LET res == ExtendibleHashTable_Find(page_table_, k)
        IN  /\ res.found = (shadow[k] # NoValue)
            /\ res.found => res.value = shadow[k]
            /\ Cardinality(Entries(page_table_, k)) <= 1
            /\ (last.op = "Remove" /\ last.arg = k /\ last.ret) => ~res.found

\* a key inserted before two splits is still found, after an overwrite
C7_Witness ==
    /\ page_table_.global_depth_ >= 2
    /\ last.op = "Insert" /\ last.flag
    /\ \E k \in Keys : k # last.arg /\ shadow[k] # NoValue
                       /\ IndexOf(page_table_, k) >= 2

\* C15: num_buckets (GetNumBuckets) is the number of distinct buckets the
\* directory references, 1 plus the number of splits performed; a remove
\* never changes it.
C15_NumBucketsCountsSplits ==
    /\ [](ExtendibleHashTable_GetNumBuckets(page_table_) =
             Cardinality(Range(page_table_.dir_)))
    /\ [][ last'.op = "Remove" =>
               ExtendibleHashTable_GetNumBuckets(page_table_') =
                   ExtendibleHashTable_GetNumBuckets(page_table_) ]_vars

\* C19: with keys of pairwise distinct hash values, insert(k, v) terminates
\* with k stored, also when one split does not separate the colliding items
\* and further splits and directory doublings are needed; at no stage of the
\* insert, the redistribution of a split bucket included, does a bucket hold
\* more items than its capacity.
C19_InsertTerminates ==
    [][ last'.op = "Insert" =>
            LET look == ExtendibleHashTable_Find(page_table_', last'.arg)
            IN  /\ look.found /\ look.value = last'.ret
                /\ page_table_' \in InsertStages(page_table_, last'.arg, last'.ret)
                /\ \A st \in InsertStages(page_table_, last'.arg, last'.ret) :
                       \A b \in DOMAIN st.buckets :
                           Len(st.buckets[b].list_) <= bucket_size_ ]_vars

\* an insert has split twice: its first split left every item of the full
\* bucket in the child the key goes to
C19_Witness ==
    /\ last.op = "Insert"
    /\ Len(last.events) >= 2
    /\ page_table_.global_depth_ >= 2
    /\ ExtendibleHashTable_Find(page_table_, last.arg).found

(***************************************************************************)
(* The buffer pool called by several threads (SpecConc).  The handlers of  *)
(* buffer_pool_manager_instance.cpp take no lock, so the threads interleave *)
(* statement by statement; the calls on the replacer and on the page table *)
(* are atomic, each under its own latch.  A step is named after the line   *)
(* it executes.  AllocatePage is taken to be one atomic fetch-and-add.     *)
(***************************************************************************)
MaxThreadCalls == 2    \* calls a thread makes

Busy == { t \in Threads : pc[t] \notin {"idle", "threw", "crashed"} }

\* the locals of a thread entering op
Enter(t, op, page_id, is_dirty) ==
    [op |-> op, page_id |-> page_id, is_dirty |-> is_dirty, target_frame_id |-> NoFrame,
     calls |-> loc[t].calls + 1]

Goto(t, label) == pc' = [pc EXCEPT ![t] = label]

SetTarget(t, f) == loc' = [loc EXCEPT ![t].target_frame_id = f]

Target(t) == loc[t].target_frame_id

\* the call returns: its arguments and locals are gone
Return(t) ==
    /\ pc' = [pc EXCEPT ![t] = "idle"]
    /\ loc' = [loc EXCEPT ![t] = [NoLocals EXCEPT !.calls = loc[t].calls]]

\* the call goes on at label, or returns
Continue(t, label) == IF label = "idle" THEN Return(t) ELSE Goto(t, label) /\ UNCHANGED loc

Quiet == <<shadow, unwritten, last>>

CallNewPage(t) ==
    /\ pc[t] = "idle"
    /\ loc[t].calls < MaxThreadCalls
    /\ next_page_id_ + Cardinality(Busy) <= MaxPageId
    /\ loc' = [loc EXCEPT ![t] = Enter(t, "NewPage", INVALID_PAGE_ID, FALSE)]
    /\ Goto(t, "obtain")
    /\ UNCHANGED <<replacer_, page_table_, pages_, free_list_, next_page_id_, Quiet>>

CallFetchPage(t, page_id) ==
    /\ pc[t] = "idle"
    /\ loc[t].calls < MaxThreadCalls
    /\ loc' = [loc EXCEPT ![t] = Enter(t, "FetchPage", page_id, FALSE)]
    /\ Goto(t, "fetch79")
    /\ UNCHANGED <<replacer_, page_table_, pages_, free_list_, next_page_id_, Quiet>>

CallUnpinPage(t, page_id, is_dirty) ==
    /\ pc[t] = "idle"
    /\ loc[t].calls < MaxThreadCalls
    /\ loc' = [loc EXCEPT ![t] = Enter(t, "UnpinPage", page_id, is_dirty)]
    /\ Goto(t, "unpin115")
    /\ UNCHANGED <<replacer_, page_table_, pages_, free_list_, next_page_id_, Quiet>>

\* FetchPgImp 79: if (page_table_->Find(page_id, target_frame_id))
Fetch79(t) ==
    /\ pc[t] = "fetch79"
    /\ LET look == ExtendibleHashTable_Find(page_table_, loc[t].page_id)
       IN  IF look.found
           THEN SetTarget(t, look.value) /\ Goto(t, "fetch80")
           ELSE UNCHANGED loc /\ Goto(t, "obtain")
    /\ UNCHANGED <<replacer_, page_table_, pages_, free_list_, next_page_id_, Quiet>>

\* FetchPgImp 80-81: replacer_->RecordAccess(target_frame_id); return
Fetch80(t) ==
    /\ pc[t] = "fetch80"
    /\ replacer_' = LRUKReplacer_RecordAccess(replacer_, Target(t))
    /\ Return(t)
    /\ UNCHANGED <<page_table_, pages_, free_list_, next_page_id_, Quiet>>

\* NewPgImp 47, 51 / FetchPgImp 84, 88: if (!free_list_.empty()) ... else Evict
Obtain(t) ==
    /\ pc[t] = "obtain"
    /\ IF free_list_ # <<>>
       THEN /\ Goto(t, "front")
            /\ UNCHANGED <<replacer_, loc>>
       ELSE \E order \in Orders(DOMAIN replacer_.map_) :
                LET ev == LRUKReplacer_Evict(replacer_, order)
                IN  /\ replacer_' = ev.r
                    /\ IF ev.ok THEN SetTarget(t, ev.frame_id) /\ Goto(t, "remove")
                       ELSE Return(t)
    /\ UNCHANGED <<page_table_, pages_, free_list_, next_page_id_, Quiet>>

\* NewPgImp 48 / FetchPgImp 85: target_frame_id = free_list_.front();
\* front() of a list another thread has emptied is undefined: any frame id
Front(t) ==
    /\ pc[t] = "front"
    /\ \E f \in (IF free_list_ # <<>> THEN {Head(free_list_)} ELSE Frames) : SetTarget(t, f)
    /\ Goto(t, "pop")
    /\ UNCHANGED <<replacer_, page_table_, pages_, free_list_, next_page_id_, Quiet>>

\* NewPgImp 49 / FetchPgImp 86: free_list_.pop_front();
\* pop_front() of an emptied list is undefined: the list stays empty, or the
\* thread crashes
PopFront(t) ==
    /\ pc[t] = "pop"
    /\ IF free_list_ # <<>>
       THEN free_list_' = Tail(free_list_) /\ Goto(t, "remove")
       ELSE UNCHANGED free_list_ /\ \E next \in {"remove", "crashed"} : Goto(t, next)
    /\ UNCHANGED <<replacer_, page_table_, pages_, next_page_id_, loc, Quiet>>

\* NewPgImp 57-61 / FetchPgImp 93-97: write the page back if dirty, then
\* page_table_->Remove(pages_[target_frame_id].GetPageId())
RemoveOld(t) ==
    /\ pc[t] = "remove"
    /\ page_table_' = ExtendibleHashTable_Remove(page_table_, pages_[Target(t)].page_id_).h
    /\ Goto(t, "page_id")
    /\ UNCHANGED <<replacer_, pages_, free_list_, next_page_id_, loc, Quiet>>

\* NewPgImp 64: page_id_ = AllocatePage() / FetchPgImp 100: page_id_ = page_id
SetPageId(t) ==
    /\ pc[t] = "page_id"
    /\ IF loc[t].op = "NewPage"
       THEN /\ pages_' = [pages_ EXCEPT ![Target(t)].page_id_ = next_page_id_]
            /\ next_page_id_' = next_page_id_ + 1
       ELSE /\ pages_' = [pages_ EXCEPT ![Target(t)].page_id_ = loc[t].page_id]
            /\ UNCHANGED next_page_id_
    /\ Goto(t, "pin")
    /\ UNCHANGED <<replacer_, page_table_, free_list_, loc, Quiet>>

\* NewPgImp 65 / FetchPgImp 101: pin_count_ = 1
SetPinCount(t) ==
    /\ pc[t] = "pin"
    /\ pages_' = [pages_ EXCEPT ![Target(t)].pin_count_ = 1]
    /\ Goto(t, IF loc[t].op = "NewPage" THEN "new67" ELSE "fetch103")
    /\ UNCHANGED <<replacer_, page_table_, free_list_, next_page_id_, loc, Quiet>>

\* NewPgImp 67: replacer_->RecordAccess(target_frame_id)
New67(t) ==
    /\ pc[t] = "new67"
    /\ replacer_' = LRUKReplacer_RecordAccess(replacer_, Target(t))
    /\ Goto(t, "new68")
    /\ UNCHANGED <<page_table_, pages_, free_list_, next_page_id_, loc, Quiet>>

\* NewPgImp 68: replacer_->SetEvictable(target_frame_id, false)
New68(t) ==
    /\ pc[t] = "new68"
    /\ LET set == LRUKReplacer_SetEvictable(replacer_, Target(t), FALSE)
       IN  replacer_' = set.r /\ Goto(t, IF set.threw THEN "threw" ELSE "new70")
    /\ UNCHANGED <<page_table_, pages_, free_list_, next_page_id_, loc, Quiet>>

\* NewPgImp 70-73: page_table_->Insert(pages_[target_frame_id].page_id_, ...); return
New70(t) ==
    /\ pc[t] = "new70"
    /\ page_table_' = ExtendibleHashTable_Insert(page_table_, pages_[Target(t)].page_id_,
                                                 Target(t))
    /\ Return(t)
    /\ UNCHANGED <<replacer_, pages_, free_list_, next_page_id_, Quiet>>

\* FetchPgImp 103-105: page_table_->Insert(pages_[target_frame_id].page_id_, ...)
Fetch103(t) ==
    /\ pc[t] = "fetch103"
    /\ page_table_' = ExtendibleHashTable_Insert(page_table_, pages_[Target(t)].page_id_,
                                                 Target(t))
    /\ Goto(t, "fetch106")
    /\ UNCHANGED <<replacer_, pages_, free_list_, next_page_id_, loc, Quiet>>

\* FetchPgImp 106: replacer_->RecordAccess(target_frame_id)
Fetch106(t) ==
    /\ pc[t] = "fetch106"
    /\ replacer_' = LRUKReplacer_RecordAccess(replacer_, Target(t))
    /\ Goto(t, "fetch107")
    /\ UNCHANGED <<page_table_, pages_, free_list_, next_page_id_, loc, Quiet>>

\* FetchPgImp 107-109: replacer_->SetEvictable(target_frame_id, false); return
Fetch107(t) ==
    /\ pc[t] = "fetch107"
    /\ LET set == LRUKReplacer_SetEvictable(replacer_, Target(t), FALSE)
       IN  replacer_' = set.r /\ Continue(t, IF set.threw THEN "threw" ELSE "idle")
    /\ UNCHANGED <<page_table_, pages_, free_list_, next_page_id_, Quiet>>

\* UnpinPgImp 115-121: the lookup and the test of the pin count
Unpin115(t) ==
    /\ pc[t] = "unpin115"
    /\ LET look == ExtendibleHashTable_Find(page_table_, loc[t].page_id)
       IN  IF look.found /\ pages_[look.value].pin_count_ # 0
           THEN SetTarget(t, look.value) /\ Goto(t, "unpin123")
           ELSE Return(t)
    /\ UNCHANGED <<replacer_, page_table_, pages_, free_list_, next_page_id_, Quiet>>

\* UnpinPgImp 123: pin_count_ -= 1
Unpin123(t) ==
    /\ pc[t] = "unpin123"
    /\ pages_' = [pages_ EXCEPT ![Target(t)].pin_count_ = @ - 1]
    /\ Goto(t, "unpin124")
    /\ UNCHANGED <<replacer_, page_table_, free_list_, next_page_id_, loc, Quiet>>

\* UnpinPgImp 124-126: if (GetPinCount() == 0) replacer_->SetEvictable(..., true)
Unpin124(t) ==
    /\ pc[t] = "unpin124"
    /\ LET set == IF BecomesEvictable(pages_[Target(t)].pin_count_)
                  THEN LRUKReplacer_SetEvictable(replacer_, Target(t), TRUE)
                  ELSE [threw |-> FALSE, r |-> replacer_]
       IN  replacer_' = set.r /\ Goto(t, IF set.threw THEN "threw" ELSE "unpin128")
    /\ UNCHANGED <<page_table_, pages_, free_list_, next_page_id_, loc, Quiet>>

\* UnpinPgImp 128-130: is_dirty_ = is_dirty; return true
Unpin128(t) ==
    /\ pc[t] = "unpin128"
    /\ pages_' = [pages_ EXCEPT ![Target(t)].is_dirty_ =
                      DirtyAfterUnpin(@, loc[t].is_dirty)]
    /\ Return(t)
    /\ UNCHANGED <<replacer_, page_table_, free_list_, next_page_id_, Quiet>>

NextConc ==
    \E t \in Threads :
        \/ CallNewPage(t)
        \/ \E p \in PageIds : CallFetchPage(t, p)
        \/ \E p \in PageIds, d \in BOOLEAN : CallUnpinPage(t, p, d)
        \/ Fetch79(t)
        \/ Fetch80(t)
        \/ Obtain(t)
        \/ Front(t)
        \/ PopFront(t)
        \/ RemoveOld(t)
        \/ SetPageId(t)
        \/ SetPinCount(t)
        \/ New67(t)
        \/ New68(t)
        \/ New70(t)
        \/ Fetch103(t)
        \/ Fetch106(t)
        \/ Fetch107(t)
        \/ Unpin115(t)
        \/ Unpin123(t)
        \/ Unpin124(t)
        \/ Unpin128(t)

SpecConc == Init /\ [][NextConc]_vars

\* the pages the page table maps to frame f
PagesOf(h, f) ==
    { key \in PageIds \cup {INVALID_PAGE_ID} :
          LET look == ExtendibleHashTable_Find(h, key) IN look.found /\ look.value = f }

\* C10: concurrent buffer pool calls are equivalent to some sequential order of
\* them: whenever no call is in progress, no frame has been handed out for
\* two different pages (the page table maps at most one page to a frame), and
\* no frame is both in the free list and in use.
C10_CallsAreSerializable ==
    (\A t \in Threads : pc[t] = "idle") =>
        \A f \in Frames :
            /\ Cardinality(PagesOf(page_table_, f)) <= 1
            /\ (pages_[f].page_id_ # INVALID_PAGE_ID => f \notin Range(free_list_))

====
